---- MODULE Spec2Model ----
(***************************************************************************)
(* A model of cluster.py: the pipeline                                     *)
(*   names -> build_ngrams -> build_features (count, scale, PCA)           *)
(*         -> DBSCAN labels -> clusternames grouping -> print_clusters.    *)
(*                                                                         *)
(* A string is a sequence of one-character strings.  A printed line is a   *)
(* sequence whose first element is the literal text of the format and      *)
(* whose remaining elements are the characters substituted into it.        *)
(* The numeric content of the scaled and reduced matrix is not modelled,   *)
(* only its shape; the labels DBSCAN returns are any label sequence the    *)
(* algorithm can return for the given number of points.                    *)
(***************************************************************************)
EXTENDS Integers, Sequences, FiniteSets

VARIABLES
    names,         \* __main__: the stripped input lines (line 139)
    pc,            \* the statement of the pipeline that runs next
    ngrams,        \* build_features: the vocabulary list (line 81)
    X,             \* build_features: the rows built so far (line 84)
    shape,         \* build_features: (rows, columns) of X_n (lines 86-88)
    n_components,  \* the n_components PCA was constructed with (line 87), 0 before
    labels,        \* clusternames: the labels of fit_predict (line 109)
    idx,           \* clusternames: position of the izip loop (line 112)
    ordered,       \* clusternames: the dict label -> list of names (line 111)
    printed,       \* print_clusters: keys iteritems() has visited (line 125)
    out,           \* print_clusters: the lines printed so far
    err            \* the exception that ended the run, "none" otherwise

vars == <<names, pc, ngrams, X, shape, n_components, labels, idx, ordered, printed, out, err>>

\* ---------------------------------------------------------------- bounds
\* Largest number of lines in the corpus.
MaxNames == 4
\* Largest total number of characters in the corpus.
MaxChars == 3

Alphabet == {"a", "b"}

\* ----------------------------------------------------- program constants
N == 2
N_COMPONENTS == 50
MIN_SAMPLES == 3

\* --------------------------------------------------------------- helpers
Min(a, b) == IF a <= b THEN a ELSE b

Range(s) == {s[k] : k \in 1..Len(s)}

\* Python's s[i:j] for 0 <= i <= j: the end is clamped to the length.
Slice(s, i, j) == SubSeq(s, i + 1, Min(j, Len(s)))

\* All strings of at most n characters.
Strings(n) == UNION {[1..k -> Alphabet] : k \in 0..n}

\* All corpora of at most k lines holding at most c characters in total.
RECURSIVE Corpora(_, _)
Corpora(k, c) ==
    IF k = 0 THEN {<<>>}
    ELSE {<<>>} \cup UNION {{<<s>> \o rest : rest \in Corpora(k - 1, c - Len(s))} : s \in Strings(c)}

\* Every listing of the finite set S without repetition: list(set) returns
\* the elements in hash order, one fixed but arbitrary order per run.
Listings(S) ==
    {f \in [1..Cardinality(S) -> S] : \A a, b \in 1..Cardinality(S) : a # b => f[a] # f[b]}

\* ----------------------------------------------------------- build_ngrams
\* xrange(len(name)-N+1) with the off-by-one slip: the last n-gram is missed.
NgramStartsShort(name) == 0..(Len(name) - N - 1)

\* xrange(len(name)-N+1): the start offsets of the n-grams of name.
NgramStarts(name) == 0..(Len(name) - N + 1 - 1)

\* The set that build_ngrams accumulates: name[i:i+N] for every name and
\* every start offset i.
NgramSet(nms) == UNION {{Slice(nms[k], i, i + N) : i \in NgramStarts(nms[k])} : k \in 1..Len(nms)}

\* --------------------------------------------------------- build_features
\* str.count(sub) for a non-empty sub: occurrences are counted from the left
\* and the scan resumes after the end of each occurrence found.
RECURSIVE CountFrom(_, _, _)
CountFrom(s, sub, p) ==
    IF p + Len(sub) > Len(s) THEN 0
    ELSE IF Slice(s, p, p + Len(sub)) = sub THEN 1 + CountFrom(s, sub, p + Len(sub))
    ELSE CountFrom(s, sub, p + 1)

StrCount(s, sub) == CountFrom(s, sub, 0)

\* A row built against the n-grams of the name itself instead of the shared
\* vocabulary.
build_own_vocab(name, ngs) ==
    LET own == SelectSeq(ngs, LAMBDA g : g \in NgramSet(<<name>>))
    IN  [j \in 1..Len(own) |-> StrCount(name, own[j])]

\* The lambda `build`: one count per vocabulary n-gram, in vocabulary order.
\* float() of these small counts is exact, so a cell is kept as the count.
build(name, ngs) == [j \in 1..Len(ngs) |-> StrCount(name, ngs[j])]

\* The shape numpy gives the array of rows: (rows, columns).
ShapeOf(M) == <<Len(M), IF Len(M) = 0 THEN 0 ELSE Len(M[1])>>

\* ----------------------------------------------------------------- DBSCAN
\* The label sequences DBSCAN(min_samples=MIN_SAMPLES).fit_predict can return
\* for the rows of nms: -1 is noise, clusters are numbered 0..k-1; a cluster
\* needs a core point whose neighbourhood holds MIN_SAMPLES points, all of
\* which are labelled, and core points of distinct clusters share no core
\* neighbour, so k <= n - MIN_SAMPLES + 1; equal strings have equal rows and
\* so equal labels.
DbscanLabels(nms) ==
    LET n == Len(nms)
        maxk == IF n >= MIN_SAMPLES THEN n - MIN_SAMPLES + 1 ELSE 0
    IN  {l \in [1..n -> -1..(maxk - 1)] :
            /\ \A c \in 0..(maxk - 1) : c \in Range(l) => \A d \in 0..c : d \in Range(l)
            /\ (\E k \in 1..n : l[k] >= 0) => Cardinality({k \in 1..n : l[k] >= 0}) >= MIN_SAMPLES
            /\ \A a, b \in 1..n : nms[a] = nms[b] => l[a] = l[b]}

\* ----------------------------------------------------------- clusternames
\* ordered[label] = [name]: the group is overwritten instead of extended.
GroupOverwrite(d, label, name) ==
    [k \in DOMAIN d \cup {label} |-> IF k = label THEN <<name>> ELSE d[k]]

\* ordered[label].insert(0, name): the name is put in front.
GroupPrepend(d, label, name) ==
    [k \in DOMAIN d \cup {label} |->
        IF k = label THEN <<name>> \o (IF k \in DOMAIN d THEN d[k] ELSE <<>>) ELSE d[k]]

\* ordered[label].append(name) on a defaultdict(list): a missing key starts
\* as the empty list.
GroupAppend(d, label, name) ==
    [k \in DOMAIN d \cup {label} |->
        IF k = label THEN Append(IF k \in DOMAIN d THEN d[k] ELSE <<>>, name) ELSE d[k]]

\* --------------------------------------------------------- print_clusters
\* '%d' % n for n >= 0: the decimal digits of n.
Digit(n) == CASE n = 0 -> "0" [] n = 1 -> "1" [] n = 2 -> "2" [] n = 3 -> "3" [] n = 4 -> "4"
              [] n = 5 -> "5" [] n = 6 -> "6" [] n = 7 -> "7" [] n = 8 -> "8" [] n = 9 -> "9"

RECURSIVE Decimal(_)
Decimal(n) == IF n < 10 THEN <<Digit(n)>> ELSE Decimal(n \div 10) \o <<Digit(n % 10)>>

\* Every group gets the cluster header, the noise group too.
HeaderAlwaysCluster(cluster, contents) == <<"[*] --- Cluster: ">> \o contents[1] \o <<" ---">>

\* The header line of a group.
Header(cluster, contents) ==
    IF cluster # -1 THEN <<"[*] --- Cluster: ">> \o contents[1] \o <<" ---">>
    ELSE <<"[*] --- Outside any cluster ---">>

\* '[+] ' + item
ItemLine(item) == <<"[+] ">> \o item

\* The lines one iteration of the loop over clustered.iteritems() prints.
Block(cluster, contents) ==
    <<Header(cluster, contents)>> \o [j \in 1..Len(contents) |-> ItemLine(contents[j])]

\* The noise group is always subtracted, present or not.
NClustersAlwaysMinusOne(clustered) == Cardinality(DOMAIN clustered) - 1

\* n_clusters = len(clustered) - (1 if -1 in clustered else 0)
NClusters(clustered) ==
    Cardinality(DOMAIN clustered) - (IF -1 \in DOMAIN clustered THEN 1 ELSE 0)

SummaryLine(clustered) ==
    <<"[*] Estimated number of clusters: ">> \o Decimal(NClusters(clustered))

EmptyDict == [k \in {} |-> <<>>]

\* ------------------------------------------------------------------ state
Init ==
    /\ names \in Corpora(MaxNames, MaxChars)
    /\ pc = "start"
    /\ ngrams = <<>>
    /\ X = <<>>
    /\ shape = <<0, 0>>
    /\ n_components = 0
    /\ labels = <<>>
    /\ idx = 1
    /\ ordered = EmptyDict
    /\ printed = {}
    /\ out = <<>>
    /\ err = "none"

\* build_features, line 81: ngrams = build_ngrams(names).
BuildNgrams ==
    /\ pc = "start"
    /\ ngrams' \in Listings(NgramSet(names))
    /\ pc' = "map"
    /\ UNCHANGED <<names, X, shape, n_components, labels, idx, ordered, printed, out, err>>

\* build_features, line 84: map(build, names), one row per step.
BuildRow ==
    /\ pc = "map"
    /\ Len(X) < Len(names)
    /\ X' = Append(X, build(names[Len(X) + 1], ngrams))
    /\ UNCHANGED <<names, pc, ngrams, shape, n_components, labels, idx, ordered, printed, out, err>>

\* build_features, line 86: StandardScaler().fit_transform(X) on a matrix
\* with at least one row and one column.
Scale ==
    /\ pc = "map"
    /\ Len(X) = Len(names)
    /\ ShapeOf(X)[1] > 0 /\ ShapeOf(X)[2] > 0
    /\ shape' = ShapeOf(X)
    /\ pc' = "pca"
    /\ UNCHANGED <<names, ngrams, X, n_components, labels, idx, ordered, printed, out, err>>

\* build_features, line 86: there is no guard before the call, and the
\* scaler's input validation rejects an array with no row or no column.
ScaleFails ==
    /\ pc = "map"
    /\ Len(X) = Len(names)
    /\ (ShapeOf(X)[1] = 0 \/ ShapeOf(X)[2] = 0)
    /\ pc' = "failed"
    /\ err' = "ValueError"
    /\ UNCHANGED <<names, ngrams, X, shape, n_components, labels, idx, ordered, printed, out>>

\* build_features, lines 87-88: PCA(n_components=N_COMPONENTS).fit_transform
\* and return.  A library that does not validate n_components keeps as many
\* components as the decomposition has.  The locals ngrams and X end here.
Pca ==
    /\ pc = "pca"
    /\ n_components' = N_COMPONENTS
    /\ shape' = <<shape[1], Min(N_COMPONENTS, Min(shape[1], shape[2]))>>
    /\ ngrams' = <<>>
    /\ X' = <<>>
    /\ pc' = "dbscan"
    /\ UNCHANGED <<names, labels, idx, ordered, printed, out, err>>

\* build_features, line 87: a library that validates n_components against
\* the matrix raises when more components are asked for than it has.
PcaFails ==
    /\ pc = "pca"
    /\ N_COMPONENTS > Min(shape[1], shape[2])
    /\ n_components' = N_COMPONENTS
    /\ pc' = "failed"
    /\ err' = "ValueError"
    /\ UNCHANGED <<names, ngrams, X, shape, labels, idx, ordered, printed, out>>

\* clusternames, lines 108-111.
Dbscan ==
    /\ pc = "dbscan"
    /\ labels' \in DbscanLabels(names)
    /\ ordered' = EmptyDict
    /\ idx' = 1
    /\ pc' = "group"
    /\ UNCHANGED <<names, ngrams, X, shape, n_components, printed, out, err>>

\* clusternames, lines 112-114: one iteration of the loop over
\* izip(labels, names); after the last one the dict is returned.
Group ==
    /\ pc = "group"
    /\ idx <= Min(Len(labels), Len(names))
    /\ ordered' = GroupAppend(ordered, labels[idx], names[idx])
    /\ idx' = idx + 1
    /\ pc' = IF idx = Min(Len(labels), Len(names)) THEN "print" ELSE "group"
    /\ UNCHANGED <<names, ngrams, X, shape, n_components, labels, printed, out, err>>

\* print_clusters, lines 125-131: one iteration of the loop over
\* clustered.iteritems(), which visits the keys in hash order.
PrintCluster ==
    /\ pc = "print"
    /\ \E cluster \in DOMAIN ordered \ printed :
        /\ out' = out \o Block(cluster, ordered[cluster])
        /\ printed' = printed \cup {cluster}
    /\ UNCHANGED <<names, pc, ngrams, X, shape, n_components, labels, idx, ordered, err>>

\* print_clusters, lines 133-134.
PrintSummary ==
    /\ pc = "print"
    /\ printed = DOMAIN ordered
    /\ out' = Append(out, SummaryLine(ordered))
    /\ pc' = "done"
    /\ UNCHANGED <<names, ngrams, X, shape, n_components, labels, idx, ordered, printed, err>>

Next ==
    \/ BuildNgrams
    \/ BuildRow
    \/ Scale
    \/ ScaleFails
    \/ Pca
    \/ PcaFails
    \/ Dbscan
    \/ Group
    \/ PrintCluster
    \/ PrintSummary

Spec == Init /\ [][Next]_vars

\* ================================================================ claims
\* The grouping has been returned by clusternames.
Grouped == pc \in {"print", "done"}

\* The vocabulary has been built and build_features has not yet returned.
VocabBuilt == pc \in {"map", "pca"}

Occurrences(seq, s) == Cardinality({k \in 1..Len(seq) : seq[k] = s})

RECURSIVE TotalIn(_, _, _)
TotalIn(d, keys, s) ==
    IF keys = {} THEN 0
    ELSE LET k == CHOOSE x \in keys : TRUE
         IN  Occurrences(d[k], s) + TotalIn(d, keys \ {k}, s)

RECURSIVE TotalLen(_, _)
TotalLen(d, keys) ==
    IF keys = {} THEN 0
    ELSE LET k == CHOOSE x \in keys : TRUE
         IN  Len(d[k]) + TotalLen(d, keys \ {k})

\* C1: the grouping clusternames returns is a partition of the corpus: its
\* keys are the labels in use, the groups together hold as many names as the
\* corpus, every string occurs in the groups as often as in the corpus
\* (nothing added, nothing lost, duplicates kept), and the name at each
\* position is in the group of its label.
C1_GroupingIsPartition ==
    Grouped =>
        /\ DOMAIN ordered = Range(labels)
        /\ TotalLen(ordered, DOMAIN ordered) = Len(names)
        /\ \A s \in Range(names) \cup UNION {Range(ordered[k]) : k \in DOMAIN ordered} :
               TotalIn(ordered, DOMAIN ordered, s) = Occurrences(names, s)
        /\ \A k \in 1..Len(names) : names[k] \in Range(ordered[labels[k]])

\* A corpus with a duplicate line grouped into a cluster and the noise group.
C1_Witness ==
    /\ Grouped
    /\ Cardinality(Range(names)) < Len(names)
    /\ DOMAIN ordered = {-1, 0}

\* The number of start offsets at which g occurs in s, overlaps included.
OverlapCount(s, g) == Cardinality({p \in 0..(Len(s) - Len(g)) : Slice(s, p, p + Len(g)) = g})

\* C2: once the rows are built, cell (i, j) is the number of positions at
\* which vocabulary n-gram j occurs in string i, overlapping occurrences
\* counted.
C2_CellCountsOverlapping ==
    pc = "pca" =>
        \A i \in 1..Len(X) : \A j \in 1..Len(ngrams) : X[i][j] = OverlapCount(names[i], ngrams[j])

\* C3: the vocabulary list has no duplicate and its elements are exactly the
\* strings of length N that occur at some position of some corpus string; a
\* string shorter than N has no such position.
C3_VocabularyIsAllNgrams ==
    VocabBuilt =>
        /\ \A a, b \in 1..Len(ngrams) : a # b => ngrams[a] # ngrams[b]
        /\ Range(ngrams) =
               {g \in [1..N -> Alphabet] :
                   \E k \in 1..Len(names) : \E p \in 1..Len(names[k]) :
                       /\ p + N - 1 <= Len(names[k])
                       /\ \A q \in 1..N : names[k][p + q - 1] = g[q]}

\* A corpus with a string shorter than N and a string holding more than one
\* n-gram position.
C3_Witness ==
    /\ VocabBuilt
    /\ \E k \in 1..Len(names) : Len(names[k]) < N
    /\ \E k \in 1..Len(names) : Len(names[k]) > N
    /\ ngrams # <<>>

\* C4: with an empty vocabulary the run gets no further than building the
\* feature matrix and ends in EmptyInputError: the matrix is never handed to
\* the scaler.
C4_EmptyVocabularyRaisesEmptyInputError ==
    (pc # "start" /\ NgramSet(names) = {}) =>
        \/ pc = "map"
        \/ (pc = "failed" /\ err = "EmptyInputError")

\* C5: the number of components asked of PCA is min(N_COMPONENTS, V, corpus
\* size), and the reduction does not fail.
C5_ComponentCountIsCapped ==
    n_components # 0 =>
        /\ n_components = Min(N_COMPONENTS, Min(Cardinality(NgramSet(names)), Len(names)))
        /\ pc # "failed"

\* C6: the count in the summary line is the number of distinct non-negative
\* labels, which is the number of groups other than the noise group.
C6_CountIsNonNoiseGroups ==
    pc = "done" =>
        /\ out[Len(out)] =
               <<"[*] Estimated number of clusters: ">>
                   \o Decimal(Cardinality({l \in Range(labels) : l >= 0}))
        /\ Cardinality({l \in Range(labels) : l >= 0}) = Cardinality(DOMAIN ordered \ {-1})

\* Two clusters and no noise group.
C6_Witness ==
    /\ pc = "done"
    /\ DOMAIN ordered = {0, 1}

ExpectedHeader(k) ==
    IF k = -1 THEN <<"[*] --- Outside any cluster ---">>
    ELSE <<"[*] --- Cluster: ">> \o ordered[k][1] \o <<" ---">>

ExpectedBlock(k) ==
    <<ExpectedHeader(k)>> \o [j \in 1..Len(ordered[k]) |-> <<"[+] ">> \o ordered[k][j]]

RECURSIVE ExpectedBlocks(_)
ExpectedBlocks(order) ==
    IF order = <<>> THEN <<>>
    ELSE ExpectedBlock(Head(order)) \o ExpectedBlocks(Tail(order))

IsSummary(line) == line[1] = "[*] Estimated number of clusters: "

\* C7: the output is, for the groups in some order, one block per group (its
\* header, the noise header for label -1 and the cluster header naming the
\* first member otherwise, then one item line per member), and after the
\* last block one summary line; no summary line is printed before.
C7_OutputShape ==
    /\ pc = "print" =>
           \E order \in Listings(printed) : out = ExpectedBlocks(order)
    /\ pc = "done" =>
           /\ \E order \in Listings(DOMAIN ordered) :
                  SubSeq(out, 1, Len(out) - 1) = ExpectedBlocks(order)
           /\ {t \in 1..Len(out) : IsSummary(out[t])} = {Len(out)}

\* A finished run that printed a cluster and the noise group.
C7_Witness ==
    /\ pc = "done"
    /\ DOMAIN ordered = {-1, 0}

\* C8: the name at position i is, in the group of its label, at the rank i
\* has among the positions of that label, so names of one group keep their
\* corpus order; the header of a cluster names the earliest string of its
\* label.
C8_InputOrderKept ==
    /\ Grouped =>
           \A i \in 1..Len(names) :
               LET r == Cardinality({m \in 1..i : labels[m] = labels[i]})
               IN  /\ r <= Len(ordered[labels[i]])
                   /\ ordered[labels[i]][r] = names[i]
    /\ pc = "done" =>
           \A k \in DOMAIN ordered \ {-1} :
               LET first == CHOOSE i \in 1..Len(names) :
                                labels[i] = k /\ \A m \in 1..(i - 1) : labels[m] # k
               IN  \E t \in 1..Len(out) : out[t] = <<"[*] --- Cluster: ">> \o names[first] \o <<" ---">>

\* A finished run with a cluster holding two different strings.
C8_Witness ==
    /\ pc = "done"
    /\ \E i, j \in 1..Len(names) : i < j /\ labels[i] = labels[j] /\ labels[i] >= 0 /\ names[i] # names[j]

\* C9: a run on a corpus of one string ends normally, with the string in the
\* noise group, no other group, and a reported count of 0.
C9_SingleStringIsNoise ==
    (Len(names) = 1 /\ pc \in {"done", "failed"}) =>
        /\ pc = "done"
        /\ DOMAIN ordered = {-1}
        /\ out[Len(out)] = <<"[*] Estimated number of clusters: ", "0">>

\* The rows built so far are rows against the current vocabulary list.
RowsMatchVocabulary ==
    /\ pc = "start" => X = <<>>
    /\ VocabBuilt =>
           \A i \in 1..Len(X) :
               /\ Len(X[i]) = Len(ngrams)
               /\ \A j \in 1..Len(ngrams) : X[i][j] = StrCount(names[i], ngrams[j])
    /\ pc = "pca" =>
           /\ Len(X) = Len(names)
           /\ Len(ngrams) = Cardinality(NgramSet(names))

\* C10: no row exists before the vocabulary is built, the vocabulary does
\* not change while the rows are computed, every row is a row against that
\* vocabulary in its column order, and the finished matrix has one row per
\* corpus string and one column per n-gram of the corpus.
C10_VocabularyFrozen ==
    [][(pc = "map" => ngrams' = ngrams) /\ RowsMatchVocabulary']_vars

\* A finished matrix of two different rows over a vocabulary of two n-grams.
C10_Witness ==
    /\ pc = "pca"
    /\ Len(X) >= 2
    /\ Len(ngrams) >= 2
    /\ X[1] # X[2]

====
